---- MODULE Spec2Model ----
(***************************************************************************)
(* Model of the blahaj server's per-connection worker (src/src/main.rs):   *)
(* the read loop of start_connection, the VarInt codec it decodes frames   *)
(* with (src/src/types/varint.rs), and the handshake / status / login      *)
(* handlers.  Bytes are integers 0..255, byte strings are sequences.       *)
(*                                                                         *)
(* The crate root main.rs declares only `mod types;`, so the Connection    *)
(* the worker uses is the struct of main.rs (its read is the raw stream    *)
(* read); connection.rs is not part of the build.                          *)
(***************************************************************************)
EXTENDS Integers, Sequences, FiniteSets, TLC

\* ------------------------------------------------------------------ bounds
\* Frames the peer sends on one connection.
MaxFrames == 2
\* Reads that return fewer bytes than the receive queue holds, and how many
\* bytes such a read returns at most.
MaxShortReads == 1
MaxShortLen == 2
\* Length of the serialised status text kept by the model (the build's text
\* is longer; its bytes come from the external JSON serialiser).
JsonLen == 130
\* Longest byte slice handed to VarInt::read in a run of the codec.
MaxBufLen == 6
\* Most entries handed to construct_registry_packet in a run of the encoder.
MaxEntries == 2

\* ------------------------------------------------------- program constants
\* let mut buf: [u8; 4096]
BUF_SIZE == 4096
\* VarInt::MAX_SIZE
MAX_SIZE == 5

\* ----------------------------------------------------------------- helpers
Min(a, b) == IF a < b THEN a ELSE b

Take(s, n) == SubSeq(s, 1, n)

Drop(s, n) == SubSeq(s, n + 1, Len(s))

Last(s) == s[Len(s)]

Ok(x) == [ok |-> TRUE, v |-> x]

Err(e) == [ok |-> FALSE, err |-> e]

\* The fixed-size buffer holds the bytes the read stored, then zeroes:
\* byte i (from 0) of the buffer whose filled part is b.
BufAt(b, i) == IF i < Len(b) THEN b[i + 1] ELSE 0

\* [0; 4096]: the buffer before the read.
ZeroBuf == SubSeq([i \in 1..BUF_SIZE |-> 0], 1, BUF_SIZE)

\* &buf[lo..hi] of the zero-filled buffer (0-based, hi exclusive, at most
\* BUF_SIZE) whose head holds the bytes b of the read.
Slice(b, lo, hi) ==
    IF hi <= Len(b) THEN SubSeq(b, lo + 1, hi)
                    ELSE SubSeq(b \o ZeroBuf, lo + 1, hi)

\* ------------------------------------------------------------------ VarInt
\* Groups of a non-negative value: low 7 bits first, continuation bit set on
\* every byte but the last.
RECURSIVE encode_loop(_)
encode_loop(value) ==
    IF value \div 128 = 0
        THEN <<value % 128>>
        ELSE <<(value % 128) + 128>> \o encode_loop(value \div 128)

\* VarInt::as_bytes: `self.value as u64` sign-extends, so a negative value is
\* encoded from its 64-bit pattern: ten groups, bits 31..63 all set.
as_bytes(value) ==
    IF value >= 0
        THEN encode_loop(value)
        ELSE LET u == (value + 1073741824) + 1073741824   \* low 31 bits
             IN  << (u % 128) + 128,
                    ((u \div 128) % 128) + 128,
                    ((u \div 16384) % 128) + 128,
                    ((u \div 2097152) % 128) + 128,
                    ((u \div 268435456) + 120) + 128,
                    255, 255, 255, 255, 1 >>

\* VarInt::new
VarInt_new(value) == [value |-> value, bytes |-> as_bytes(value)]

\* VarInt::length
length(v) == Len(v.bytes)

\* val | (group << (i * 7)) in i32: the groups occupy disjoint bits; at i = 4
\* only the low 4 bits of the group stay, the top one being the sign bit.
or_shift(val, group, i) ==
    CASE i = 0 -> val + group
      [] i = 1 -> val + group * 128
      [] i = 2 -> val + group * 16384
      [] i = 3 -> val + group * 2097152
      [] OTHER -> LET low == (group % 16) % 8
                      sign == (group % 16) \div 8
                  IN  IF sign = 1
                          THEN ((val + low * 268435456) - 1073741824) - 1073741824
                          ELSE val + low * 268435456

\* read_loop going one byte further than MAX_SIZE.
RECURSIVE read_loop_six(_, _, _)
read_loop_six(bytes, i, val) ==
    IF i = MAX_SIZE + 1 THEN Err("TooLarge")
    ELSE IF i >= Len(bytes) THEN Err("OutOfRange")
    ELSE LET byte == bytes[i + 1]
             val2 == or_shift(val, byte % 128, i)
         IN  IF byte < 128 THEN Ok(VarInt_new(val2))
                           ELSE read_loop_six(bytes, i + 1, val2)

RECURSIVE read_loop(_, _, _)
read_loop(bytes, i, val) ==
    IF i = MAX_SIZE THEN Err("TooLarge")
    ELSE IF i >= Len(bytes) THEN Err("OutOfRange")
    ELSE LET byte == bytes[i + 1]
             val2 == or_shift(val, byte % 128, i)
         IN  IF byte < 128 THEN Ok(VarInt_new(val2))
                           ELSE read_loop(bytes, i + 1, val2)

\* VarInt::read taking a missing byte for 0, as the zero-filled receive
\* buffer would give it.
ivar_read_zero_fill(bytes) == read_loop(bytes \o <<0>>, 0, 0)

\* VarInt::read
ivar_read(bytes) == read_loop(bytes, 0, 0)

\* --------------------------------------------------------- ConnectionState
ConnectionStates == {"Handshake", "Status", "Login", "Transfer", "Unknown"}

\* from_u8 with the arms for 2 and 3 exchanged.
from_u8_swapped(value) ==
    CASE value = 0 -> "Handshake"
      [] value = 1 -> "Status"
      [] value = 2 -> "Transfer"
      [] value = 3 -> "Login"
      [] OTHER -> "Unknown"

\* ConnectionState::from_u8
from_u8(value) ==
    CASE value = 0 -> "Handshake"
      [] value = 1 -> "Status"
      [] value = 2 -> "Login"
      [] value = 3 -> "Transfer"
      [] OTHER -> "Unknown"

\* ----------------------------------------------------------------- strings
\* A String is the sequence of its chars' code points.
\* convert_buf_to_string: every byte becomes the char of that code point.
convert_buf_to_string(buff) == [i \in 1..Len(buff) |-> buff[i]]

\* UTF-8 of one char below U+0100.
utf8(ch) == IF ch < 128 THEN <<ch>> ELSE <<192 + (ch \div 64), 128 + (ch % 64)>>

\* String::as_bytes / into_bytes
RECURSIVE String_as_bytes(_)
String_as_bytes(text) ==
    IF text = <<>> THEN <<>>
    ELSE IF Len(text) = 1 THEN utf8(text[1])
    ELSE LET half == Len(text) \div 2
         IN  String_as_bytes(Take(text, half)) \o String_as_bytes(Drop(text, half))

\* write_utf8_string: the bytes appended to the buffer.
write_utf8_string(text) ==
    LET data == String_as_bytes(text)
    IN  as_bytes(Len(data)) \o data

\* A u128 is kept as its eight 16-bit limbs, most significant first.
\* u128::from_be_bytes
from_be_bytes(b) == [k \in 1..8 |-> b[2 * k - 1] * 256 + b[2 * k]]

\* u128::to_be_bytes
to_be_bytes(u) ==
    [i \in 1..16 |-> IF i % 2 = 1 THEN u[(i + 1) \div 2] \div 256
                                  ELSE u[i \div 2] % 256]

\* ---------------------------------------------------------------- handlers
\* handshake storing the decoded state before looking at it.
handshake_stores_unknown(state, buffer) ==
    IF buffer = <<>>
        THEN [panic |-> TRUE, state |-> state, shutdown |-> FALSE]
        ELSE [panic |-> FALSE, state |-> from_u8(Last(buffer)),
              shutdown |-> (from_u8(Last(buffer)) = "Unknown")]

\* handshake(connection, buffer) once local_addr() has answered: the
\* protocol VarInt is read and only logged; the last byte decides.
\* Result: the new connection.state, whether shutdown(Both) was called,
\* whether the worker panicked (buffer.last().unwrap() on an empty payload).
handshake(state, buffer) ==
    IF buffer = <<>>
        THEN [panic |-> TRUE, state |-> state, shutdown |-> FALSE]
        ELSE LET st == from_u8(Last(buffer))
             IN  IF st = "Unknown"
                     THEN [panic |-> FALSE, state |-> state, shutdown |-> TRUE]
                     ELSE [panic |-> FALSE, state |-> st, shutdown |-> FALSE]

\* serde_json::to_string(&StatusResponse::new()): the text, as chars.
response_string == [i \in 1..JsonLen |-> IF i = 1 THEN 123
                                          ELSE IF i = JsonLen THEN 125
                                          ELSE 97 + (i % 26)]

\* status with the length taken before the text is appended.
status_writes_short_length ==
    LET packet_id == as_bytes(0)
        buffer == packet_id \o write_utf8_string(response_string)
    IN  << as_bytes(Len(packet_id)), buffer >>

\* status(stream): the two write_all calls, in order.
status_writes ==
    LET packet_id == as_bytes(0)
        buffer == packet_id \o write_utf8_string(response_string)
    IN  << as_bytes(Len(buffer)), buffer >>

\* login(buffer): Ok((player_name, uuid)), or a panic from unwrap or from a
\* slice out of range.
login(buffer) ==
    LET string_ivar == ivar_read(buffer)
    IN  IF ~string_ivar.ok THEN [panic |-> TRUE]
        ELSE IF string_ivar.v.value < 0 THEN [panic |-> TRUE]
        ELSE IF string_ivar.v.value + 1 > Len(buffer) THEN [panic |-> TRUE]
        ELSE IF Len(buffer) < 16 THEN [panic |-> TRUE]
        ELSE [panic |-> FALSE,
              name |-> convert_buf_to_string(Take(buffer, string_ivar.v.value + 1)),
              uuid |-> from_be_bytes(SubSeq(buffer, Len(buffer) - 15, Len(buffer)))]

\* login_success: the bytes handed to the one write_all call.
login_success_bytes(name, uuid) ==
    LET bytes == as_bytes(2) \o to_be_bytes(uuid) \o String_as_bytes(name)
                 \o as_bytes(0) \o <<1>>
    IN  as_bytes(Len(bytes)) \o bytes

\* ---------------------------------------------------------------- registry
\* Option<Vec<u8>>
None == [some |-> FALSE]

Some(x) == [some |-> TRUE, v |-> x]

\* utils::write_utf8_string with a two-byte big-endian length.
utils_write_utf8_string_u16(text) ==
    LET data == String_as_bytes(text)
    IN  <<Len(data) \div 256, Len(data) % 256>> \o data

\* utils::write_utf8_string: the bytes appended to the buffer.
utils_write_utf8_string(text) ==
    LET data == String_as_bytes(text)
    IN  as_bytes(Len(data)) \o data

\* RegistryEntry::as_bytes: the id, the flag from has_data, then the bytes of
\* data when it is Some; the two fields are looked at separately.
RegistryEntry_as_bytes(entry) ==
    utils_write_utf8_string(entry.entry_id)
    \o << IF entry.has_data THEN 1 ELSE 0 >>
    \o (IF entry.data.some THEN entry.data.v ELSE <<>>)

\* entries.iter().for_each(|entry| buffer.append(&mut entry.as_bytes()))
RECURSIVE for_each_entry(_)
for_each_entry(entries) ==
    IF entries = <<>> THEN <<>>
    ELSE RegistryEntry_as_bytes(Head(entries)) \o for_each_entry(Tail(entries))

\* construct_registry_packet taking the entries last first.
construct_registry_packet_reversed(registry_id, entries) ==
    LET rev == [i \in 1..Len(entries) |-> entries[Len(entries) + 1 - i]]
        buffer == as_bytes(7) \o utils_write_utf8_string(registry_id)
                  \o as_bytes(Len(entries)) \o for_each_entry(rev)
    IN  as_bytes(Len(buffer)) \o buffer

\* construct_registry_packet
construct_registry_packet(registry_id, entries) ==
    LET buffer == as_bytes(7) \o utils_write_utf8_string(registry_id)
                  \o as_bytes(Len(entries)) \o for_each_entry(entries)
    IN  as_bytes(Len(buffer)) \o buffer

\* -------------------------------------------------------------------- loop
\* One pass of the loop body after the read, up to the dispatch: the break
\* on a zero first byte, the two unwraps and the three slices.
Decode(b) ==
    IF BufAt(b, 0) = 0 THEN [kind |-> "break"]
    ELSE LET length_ivar == ivar_read(Slice(b, 0, MAX_SIZE))
         IN  IF ~length_ivar.ok THEN [kind |-> "panic"]
             ELSE LET len == length(length_ivar.v)
                      value == length_ivar.v.value
                  IN  IF value < 0 \/ value + 1 > BUF_SIZE \/ len > value + 1
                          THEN [kind |-> "panic"]
                      ELSE LET frame == Slice(b, len, value + 1)
                               packet_id_ivar == ivar_read(frame)
                           IN  IF ~packet_id_ivar.ok THEN [kind |-> "panic"]
                               ELSE IF length(packet_id_ivar.v) > Len(frame)
                                   THEN [kind |-> "panic"]
                               ELSE [kind |-> "dispatch",
                                     len |-> len,
                                     value |-> value,
                                     packet_id |-> packet_id_ivar.v.value,
                                     buf |-> Drop(frame, length(packet_id_ivar.v))]

\* ------------------------------------------------------------------- state
VARIABLES
    local_addr_ok,  \* whether stream.local_addr() answers on this socket
    pc,             \* where the worker is: start, read, decode, idle (the
                    \* `loop {}` after login_success), done, panicked
    state,          \* connection.state
    buf,            \* the bytes the last read stored at the head of buf
    rd,             \* what the last read returned: none, data, eof, err
    shut,           \* shutdown(Both) has been called on the stream
    out,            \* the bytes written to the stream, in order
    rx,             \* bytes the peer sent that no read has returned yet
    peer,           \* the peer's end of the stream: open, closed, reset
    sentFrames,     \* history: the frames the peer sent, in order
    recvd,          \* history: how many bytes the reads have returned
    shortReads,     \* history: reads that returned part of the queue
    dispatched,     \* history: one record per packet handed to the match
    vi_in,          \* codec runs: the value, the byte slice, the registry
                    \* or the entry handed in
    vi_calls,       \* codec runs: the calls made, with their results
    others          \* two workers: the connection of the worker that is not
                    \* taking the step, and which of the two it is (id)

\* The variables of a connection and those of a run of the VarInt codec.
conn == << local_addr_ok, pc, state, buf, rd, shut, out, rx, peer,
           sentFrames, recvd, shortReads, dispatched >>

codec == << vi_in, vi_calls >>

vars == << conn, codec, others >>

\* ------------------------------------------------------------------- peer
\* What a client puts on the wire: a length VarInt (one byte below 128),
\* then the packet id and the payload.
PeerFrame(body) == <<Len(body)>> \o body

\* Handshake: protocol version 767, empty server address, port 25565, next.
HandshakeBody(next) == <<0, 255, 5, 0, 99, 221, next>>

NextStateBytes == {0, 1, 2, 3, 9}

StatusRequestBody == <<0>>

PingBody == <<1, 1, 2, 3, 4, 5, 6, 7, 8>>

UnknownBody == <<5>>

\* "Steve"
NameSteve == <<83, 116, 101, 118, 101>>

\* One two-byte char, U+00E9.
NameE == <<195, 169>>

Uuid1 == <<0, 0, 0, 0, 0, 0, 0, 0, 0, 0, 0, 0, 0, 0, 0, 1>>

Uuid2 == <<1, 2, 3, 4, 5, 6, 7, 8, 9, 10, 11, 12, 13, 14, 15, 16>>

LoginStartBody(name, uuid) == <<0, Len(name)>> \o name \o uuid

\* A frame of length zero: the single byte 0.
ZeroLengthBody == <<>>

Frames ==
    { PeerFrame(HandshakeBody(n)) : n \in NextStateBytes }
    \cup { PeerFrame(StatusRequestBody), PeerFrame(PingBody),
           PeerFrame(UnknownBody), PeerFrame(ZeroLengthBody),
           PeerFrame(LoginStartBody(NameSteve, Uuid1)),
           PeerFrame(LoginStartBody(NameE, Uuid2)) }

\* ------------------------------------------------------------------- Init
\* Connection::new for the i-th accepted stream, as the record kept of it
\* while another worker takes its steps (id 0: there is no other worker).
NewConnection(i) ==
    [id |-> i, local_addr_ok |-> TRUE, pc |-> "start", state |-> "Handshake",
     buf |-> <<>>, rd |-> "none", shut |-> FALSE, out |-> <<>>, rx |-> <<>>,
     peer |-> "open", sentFrames |-> <<>>, recvd |-> 0, shortReads |-> 0,
     dispatched |-> <<>>]

\* Connection::new: state Handshake; nothing read or written yet.
Init ==
    /\ local_addr_ok \in BOOLEAN
    /\ pc = "start"
    /\ state = "Handshake"
    /\ buf = <<>>
    /\ rd = "none"
    /\ shut = FALSE
    /\ out = <<>>
    /\ rx = <<>>
    /\ peer = "open"
    /\ sentFrames = <<>>
    /\ recvd = 0
    /\ shortReads = 0
    /\ dispatched = <<>>
    /\ vi_in = [kind |-> "none"]
    /\ vi_calls = <<>>
    /\ others = NewConnection(0)

\* The worker still holds the socket.
Alive == pc \in {"start", "read", "decode", "idle"}

\* write_all succeeds: the stream is neither shut down nor reset.
Writable == ~shut /\ peer # "reset"

\* The bytes a sequence of write_all calls adds to the stream.
RECURSIVE write_all(_)
write_all(calls) ==
    IF calls = <<>> \/ ~Writable THEN <<>>
    ELSE calls[1] \o write_all(Drop(calls, 1))

\* ----------------------------------------------------------- peer actions
\* The peer sends and closes between the worker's loop passes: a send or a
\* close during the decode of a buffer already read changes nothing the
\* decode or the handlers look at.  A reset may also come while a buffer is
\* being processed: the handler's writes then fail.  The peer closes or
\* resets once what it sent has been read: a close is seen by a read only
\* when the queue is drained, and a reset drops what is queued, which the
\* worker cannot tell from bytes that were never sent.
PeerSend(f) ==
    /\ peer = "open" /\ ~shut
    /\ pc = "read"
    /\ Len(sentFrames) < MaxFrames
    /\ rx' = rx \o f
    /\ sentFrames' = Append(sentFrames, f)
    /\ UNCHANGED << local_addr_ok, pc, state, buf, rd, shut, out, peer,
                    recvd, shortReads, dispatched,
                    codec, others >>

PeerClose ==
    /\ peer = "open" /\ rx = <<>>
    /\ pc \in {"read", "idle"}
    /\ peer' = "closed"
    /\ UNCHANGED << local_addr_ok, pc, state, buf, rd, shut, out, rx,
                    sentFrames, recvd, shortReads, dispatched,
                    codec, others >>

PeerReset ==
    /\ peer = "open" /\ rx = <<>>
    /\ pc \in {"read", "decode", "idle"}
    /\ peer' = "reset"
    /\ UNCHANGED << local_addr_ok, pc, state, buf, rd, shut, out, rx,
                    sentFrames, recvd, shortReads, dispatched,
                    codec, others >>

\* --------------------------------------------------------- worker actions
\* start_connection up to the loop: local_addr() of the stream, twice (the
\* second time in Connection::new); an error returns.
Start ==
    /\ pc = "start"
    /\ pc' = IF local_addr_ok THEN "read" ELSE "done"
    /\ UNCHANGED << local_addr_ok, state, buf, rd, shut, out, rx, peer,
                    sentFrames, recvd, shortReads, dispatched,
                    codec, others >>

\* connection.read(&mut buf) returns Ok(n), n > 0: the first n queued bytes.
ReadData(n) ==
    /\ pc = "read"
    /\ ~shut /\ peer # "reset"
    /\ 1 <= n /\ n <= Len(rx) /\ n <= BUF_SIZE
    /\ n < Len(rx) => (shortReads < MaxShortReads /\ n <= MaxShortLen)
    /\ buf' = Take(rx, n)
    /\ rx' = Drop(rx, n)
    /\ rd' = "data"
    /\ recvd' = recvd + n
    /\ shortReads' = IF n < Len(rx) THEN shortReads + 1 ELSE shortReads
    /\ pc' = "decode"
    /\ UNCHANGED << local_addr_ok, state, shut, out, peer, sentFrames,
                    dispatched,
                    codec, others >>

\* read returns Ok(0): the stream was shut down, or the peer closed and the
\* queue is drained.  buf stays all zero.
ReadEof ==
    /\ pc = "read"
    /\ shut \/ (peer = "closed" /\ rx = <<>>)
    /\ buf' = <<>>
    /\ rd' = "eof"
    /\ pc' = "decode"
    /\ UNCHANGED << local_addr_ok, state, shut, out, rx, peer, sentFrames,
                    recvd, shortReads, dispatched,
                    codec, others >>

\* ReadErr with buf declared outside the loop: the bytes of the last read
\* are still in it.
ReadErr_stale_buf ==
    /\ pc = "read"
    /\ ~shut /\ peer = "reset"
    /\ rd' = "err"
    /\ pc' = "decode"
    /\ UNCHANGED << local_addr_ok, state, buf, shut, out, rx, peer, sentFrames,
                    recvd, shortReads, dispatched, codec, others >>

\* read returns Err: `let _ =` drops it.  buf stays all zero.
ReadErr ==
    /\ pc = "read"
    /\ ~shut /\ peer = "reset"
    /\ buf' = <<>>
    /\ rd' = "err"
    /\ pc' = "decode"
    /\ UNCHANGED << local_addr_ok, state, shut, out, rx, peer, sentFrames,
                    recvd, shortReads, dispatched,
                    codec, others >>

\* LoopBreak with `continue` in place of `break`.
LoopBreak_continues ==
    /\ pc = "decode"
    /\ Decode(buf).kind = "break"
    /\ pc' = "read"
    /\ UNCHANGED << local_addr_ok, state, buf, rd, shut, out, rx, peer,
                    sentFrames, recvd, shortReads, dispatched, codec, others >>

\* if buf[0] == 0 { break; }: the function returns, the stream is dropped.
LoopBreak ==
    /\ pc = "decode"
    /\ Decode(buf).kind = "break"
    /\ pc' = "done"
    /\ UNCHANGED << local_addr_ok, state, buf, rd, shut, out, rx, peer,
                    sentFrames, recvd, shortReads, dispatched,
                    codec, others >>

\* An unwrap on Err or a slice out of range before the match.
LoopPanic ==
    /\ pc = "decode"
    /\ Decode(buf).kind = "panic"
    /\ pc' = "panicked"
    /\ UNCHANGED << local_addr_ok, state, buf, rd, shut, out, rx, peer,
                    sentFrames, recvd, shortReads, dispatched,
                    codec, others >>

\* The match with the packet id looked at before the state.
match_arm_id_first(st, packet_id) ==
    CASE packet_id = 0 /\ st \in {"Handshake", "Status"} -> "handshake"
      [] st = "Handshake" /\ packet_id = 254 -> "legacy_ping"
      [] st = "Handshake" -> "unrecognised"
      [] st = "Login" /\ packet_id = 0 -> "login"
      [] st = "Login" -> "unimplemented"
      [] st = "Status" -> "status"
      [] OTHER -> "unimplemented"

\* match connection.state { .. match packet_id { .. } }: the arm taken.
match_arm(st, packet_id) ==
    CASE st = "Handshake" /\ packet_id = 0 -> "handshake"
      [] st = "Handshake" /\ packet_id = 254 -> "legacy_ping"
      [] st = "Handshake" -> "unrecognised"
      [] st = "Login" /\ packet_id = 0 -> "login"
      [] st = "Login" -> "unimplemented"
      [] st = "Status" -> "status"
      [] OTHER -> "unimplemented"

\* The arm the decoded buffer is dispatched to ("none" on break or panic).
Arm ==
    IF pc = "decode" /\ Decode(buf).kind = "dispatch"
        THEN match_arm(state, Decode(buf).packet_id)
        ELSE "none"

\* The history record of one dispatch: the state and packet seen by the
\* match, how many bytes the read had stored and how many the length prefix
\* promised, whether the stream took writes, the bytes written, the length
\* of the output after them, and connection.state after the arm.
Dispatch(d, written, after) ==
    [st |-> state, packet_id |-> d.packet_id, buf |-> d.buf,
     avail |-> Len(buf), need |-> d.len + d.value,
     writable |-> Writable, written |-> written,
     out_to |-> Len(out) + Len(written), after |-> after]

\* DispatchHandshake with the connection state kept in one place shared by
\* the workers.
DispatchHandshake_shared_state ==
    /\ Arm = "handshake"
    /\ \E d \in {Decode(buf)} : \E h \in {handshake(state, d.buf)} :
           /\ dispatched' = Append(dispatched, Dispatch(d, <<>>, h.state))
           /\ state' = h.state
           /\ others' = [others EXCEPT !.state = h.state]
           /\ shut' = (shut \/ h.shutdown)
           /\ pc' = IF h.panic THEN "panicked" ELSE "read"
    /\ UNCHANGED << local_addr_ok, buf, rd, out, rx, peer, sentFrames,
                    recvd, shortReads, codec >>

\* Handshake, 0x00 => handshake(&mut connection, buf)
DispatchHandshake ==
    /\ Arm = "handshake"
    /\ \E d \in {Decode(buf)} : \E h \in {handshake(state, d.buf)} :
           /\ dispatched' = Append(dispatched, Dispatch(d, <<>>, h.state))
           /\ state' = h.state
           /\ shut' = (shut \/ h.shutdown)
           /\ pc' = IF h.panic THEN "panicked" ELSE "read"
    /\ UNCHANGED << local_addr_ok, buf, rd, out, rx, peer, sentFrames,
                    recvd, shortReads,
                    codec, others >>

\* Handshake, 0xFE => info!(..) and Handshake, _ => error!(..): logged only.
DispatchLogged ==
    /\ Arm \in {"legacy_ping", "unrecognised"}
    /\ \E d \in {Decode(buf)} :
           dispatched' = Append(dispatched, Dispatch(d, <<>>, state))
    /\ pc' = "read"
    /\ UNCHANGED << local_addr_ok, state, buf, rd, shut, out, rx, peer,
                    sentFrames, recvd, shortReads,
                    codec, others >>

\* Status => status(&mut connection.stream), whatever the packet id.
DispatchStatus ==
    /\ Arm = "status"
    /\ \E d \in {Decode(buf)} : \E w \in {write_all(status_writes)} :
           /\ dispatched' = Append(dispatched, Dispatch(d, w, state))
           /\ out' = out \o w
    /\ pc' = "read"
    /\ UNCHANGED << local_addr_ok, state, buf, rd, shut, rx, peer,
                    sentFrames, recvd, shortReads,
                    codec, others >>

\* Login, 0x00 => login(buf), then login_success(..), which always returns
\* Ok: `loop {}`.  A panic inside login ends the worker.
DispatchLogin ==
    /\ Arm = "login"
    /\ \E d \in {Decode(buf)} : \E l \in {login(d.buf)} :
           IF l.panic
               THEN /\ dispatched' = Append(dispatched, Dispatch(d, <<>>, state))
                    /\ pc' = "panicked"
                    /\ UNCHANGED out
               ELSE \E w \in {write_all(<<login_success_bytes(l.name, l.uuid)>>)} :
                        /\ dispatched' = Append(dispatched, Dispatch(d, w, state))
                        /\ out' = out \o w
                        /\ pc' = "idle"
    /\ UNCHANGED << local_addr_ok, state, buf, rd, shut, rx, peer,
                    sentFrames, recvd, shortReads,
                    codec, others >>

\* Login, _ => unimplemented!() and _ => unimplemented!() (Transfer, Unknown).
DispatchUnimplemented ==
    /\ Arm = "unimplemented"
    /\ \E d \in {Decode(buf)} :
           dispatched' = Append(dispatched, Dispatch(d, <<>>, state))
    /\ pc' = "panicked"
    /\ UNCHANGED << local_addr_ok, state, buf, rd, shut, out, rx, peer,
                    sentFrames, recvd, shortReads,
                    codec, others >>

Next ==
    \/ \E f \in Frames : PeerSend(f)
    \/ PeerClose
    \/ PeerReset
    \/ Start
    \/ \E n \in (1..MaxShortLen) \cup {Min(Len(rx), BUF_SIZE)} : ReadData(n)
    \/ ReadEof
    \/ ReadErr
    \/ LoopBreak
    \/ LoopPanic
    \/ DispatchHandshake
    \/ DispatchLogged
    \/ DispatchStatus
    \/ DispatchLogin
    \/ DispatchUnimplemented

Spec == Init /\ [][Next]_vars

\* The steps of the worker thread; the rest of Next is the peer's.
Worker ==
    \/ Start
    \/ \E n \in (1..MaxShortLen) \cup {Min(Len(rx), BUF_SIZE)} : ReadData(n)
    \/ ReadEof
    \/ ReadErr
    \/ LoopBreak
    \/ LoopPanic
    \/ DispatchHandshake
    \/ DispatchLogged
    \/ DispatchStatus
    \/ DispatchLogin
    \/ DispatchUnimplemented

\* The worker is a thread of its own: the scheduler runs it whenever it has
\* a step to take (a read that has something to return does return).
FairSpec == Spec /\ WF_vars(Worker)

TypeOK ==
    /\ pc \in {"start", "read", "decode", "idle", "done", "panicked"}
    /\ state \in ConnectionStates
    /\ rd \in {"none", "data", "eof", "err"}
    /\ peer \in {"open", "closed", "reset"}

\* ------------------------------------------------------ runs of the codec
\* The VarInt functions on their own: a run takes an i32 or a byte slice,
\* applies as_bytes or read to it, and then the other one to the result.
\* The bytes a slice is made of: no continuation bit (0, 1, 15), and with it
\* (128, 255).
ByteSamples == {0, 1, 15, 128, 255}

RECURSIVE Buffers(_)
Buffers(n) ==
    IF n = 0 THEN {<<>>}
    ELSE LET shorter == Buffers(n - 1)
         IN  shorter \cup { Append(b, x) : b \in { c \in shorter : Len(c) = n - 1 },
                                           x \in ByteSamples }

\* i32 values: the ends of each encoded length, and negative ones.
Values ==
    { 0, 1, 127, 128, 255, 16383, 16384, 25565, 2097151, 2097152,
      268435455, 268435456, 2147483647, -1, -2, -128, -2147483647,
      (-2147483647) - 1 }

InitVarInt ==
    /\ local_addr_ok = TRUE
    /\ pc = "start"
    /\ state = "Handshake"
    /\ buf = <<>>
    /\ rd = "none"
    /\ shut = FALSE
    /\ out = <<>>
    /\ rx = <<>>
    /\ peer = "open"
    /\ sentFrames = <<>>
    /\ recvd = 0
    /\ shortReads = 0
    /\ dispatched = <<>>
    /\ vi_in \in [kind : {"value"}, value : Values]
                 \cup [kind : {"bytes"}, bytes : Buffers(MaxBufLen)]
    /\ vi_calls = <<>>
    /\ others = NewConnection(0)

\* VarInt::new(value).as_bytes()
VarIntEncode ==
    /\ vi_in.kind = "value" /\ vi_calls = <<>>
    /\ vi_calls' = << [op |-> "as_bytes", value |-> vi_in.value,
                       bytes |-> as_bytes(vi_in.value)] >>
    /\ UNCHANGED << conn, vi_in, others >>

\* VarInt::read(bytes)
VarIntRead ==
    /\ vi_in.kind = "bytes" /\ vi_calls = <<>>
    /\ vi_calls' = << [op |-> "read", bytes |-> vi_in.bytes,
                       res |-> ivar_read(vi_in.bytes)] >>
    /\ UNCHANGED << conn, vi_in, others >>

\* VarInt::read of the bytes as_bytes returned.
VarIntReadBack ==
    /\ Len(vi_calls) = 1 /\ vi_calls[1].op = "as_bytes"
    /\ vi_calls' = Append(vi_calls,
                          [op |-> "read", bytes |-> vi_calls[1].bytes,
                           res |-> ivar_read(vi_calls[1].bytes)])
    /\ UNCHANGED << conn, vi_in, others >>

\* as_bytes of the VarInt that read returned.
VarIntEncodeBack ==
    /\ Len(vi_calls) = 1 /\ vi_calls[1].op = "read" /\ vi_calls[1].res.ok
    /\ vi_calls' = Append(vi_calls,
                          [op |-> "as_bytes", value |-> vi_calls[1].res.v.value,
                           bytes |-> as_bytes(vi_calls[1].res.v.value)])
    /\ UNCHANGED << conn, vi_in, others >>

NextVarInt ==
    \/ VarIntEncode
    \/ VarIntRead
    \/ VarIntReadBack
    \/ VarIntEncodeBack

SpecVarInt == InitVarInt /\ [][NextVarInt]_vars

\* ------------------------------------------------- frames out of the usual
\* The worker fed frames with a long prefix, an undecodable prefix or packet
\* id, or a declared length out of range, among a few ordinary ones.
\* Packet id 5 and 127 more bytes: 128 bytes, so a two-byte length prefix.
LongBody == <<5>> \o SubSeq([i \in 1..127 |-> 1 + (i % 100)], 1, 127)

LongFrame == <<128, 1>> \o LongBody

\* Five continuation bytes where the length should be.
ContinuationPrefixFrame == <<128, 128, 128, 128, 128, 1, 5>>

\* Length 1, then a packet id whose only byte has the continuation bit.
BadPacketIdFrame == <<1, 128>>

\* Declared length 5000, more than the receive buffer holds.
HugeLengthFrame == <<136, 39, 5>>

\* Declared length -1.
NegativeLengthFrame == <<255, 255, 255, 255, 15, 5>>

MalformedFrames ==
    { PeerFrame(HandshakeBody(1)), PeerFrame(HandshakeBody(2)),
      PeerFrame(StatusRequestBody), PeerFrame(UnknownBody),
      PeerFrame(LoginStartBody(NameSteve, Uuid1)),
      LongFrame, ContinuationPrefixFrame, BadPacketIdFrame,
      HugeLengthFrame, NegativeLengthFrame }

NextMalformed ==
    \/ \E f \in MalformedFrames : PeerSend(f)
    \/ PeerClose
    \/ PeerReset
    \/ Start
    \/ \E n \in (1..MaxShortLen) \cup {Min(Len(rx), BUF_SIZE)} : ReadData(n)
    \/ ReadEof
    \/ ReadErr
    \/ LoopBreak
    \/ LoopPanic
    \/ DispatchHandshake
    \/ DispatchLogged
    \/ DispatchStatus
    \/ DispatchLogin
    \/ DispatchUnimplemented

SpecMalformed == Init /\ [][NextMalformed]_vars

\* ------------------------------------------------- reads after a shutdown
\* The peer may send while the worker is busy with the buffer it has read:
\* those bytes are queued in the socket when the handler calls
\* shutdown(Both).  What the next read returns then depends on the platform:
\* Ok(0) (ReadEof), or the bytes queued before the shutdown, as Linux does.
PeerSendBusy(f) ==
    /\ peer = "open" /\ ~shut
    /\ pc = "decode"
    /\ Len(sentFrames) < MaxFrames
    /\ rx' = rx \o f
    /\ sentFrames' = Append(sentFrames, f)
    /\ UNCHANGED << local_addr_ok, pc, state, buf, rd, shut, out, peer,
                    recvd, shortReads, dispatched, codec, others >>

\* connection.read(&mut buf) on a stream shut down with bytes still queued
\* returns them.
ReadQueued ==
    /\ pc = "read"
    /\ shut /\ peer # "reset" /\ rx # <<>>
    /\ buf' = Take(rx, Min(Len(rx), BUF_SIZE))
    /\ rx' = Drop(rx, Min(Len(rx), BUF_SIZE))
    /\ rd' = "data"
    /\ recvd' = recvd + Min(Len(rx), BUF_SIZE)
    /\ pc' = "decode"
    /\ UNCHANGED << local_addr_ok, state, shut, out, peer, sentFrames,
                    shortReads, dispatched, codec, others >>

ShutdownFrames ==
    { PeerFrame(HandshakeBody(1)), PeerFrame(HandshakeBody(2)),
      PeerFrame(HandshakeBody(9)), PeerFrame(StatusRequestBody),
      PeerFrame(UnknownBody), PeerFrame(LoginStartBody(NameSteve, Uuid1)),
      BadPacketIdFrame }

NextShutdown ==
    \/ \E f \in ShutdownFrames : PeerSend(f)
    \/ \E f \in ShutdownFrames : PeerSendBusy(f)
    \/ PeerClose
    \/ PeerReset
    \/ Start
    \/ \E n \in {Min(Len(rx), BUF_SIZE)} : ReadData(n)
    \/ ReadQueued
    \/ ReadEof
    \/ ReadErr
    \/ LoopBreak
    \/ LoopPanic
    \/ DispatchHandshake
    \/ DispatchLogged
    \/ DispatchStatus
    \/ DispatchLogin
    \/ DispatchUnimplemented

SpecShutdown == Init /\ [][NextShutdown]_vars

\* ------------------------------------------------------------ two workers
\* main accepts two streams and spawns a worker for each; each worker owns
\* its Connection (the stream is moved into its closure) and the Server
\* value with its maps is never handed to a worker.  The connection whose
\* worker or peer takes the step is in the connection variables, the other
\* one is in `others`; the scheduler may change over between any two steps.
\* The connection variables as the record kept while the other worker runs.
Parked(i) ==
    [id |-> i, local_addr_ok |-> local_addr_ok, pc |-> pc, state |-> state,
     buf |-> buf, rd |-> rd, shut |-> shut, out |-> out, rx |-> rx,
     peer |-> peer, sentFrames |-> sentFrames, recvd |-> recvd,
     shortReads |-> shortReads, dispatched |-> dispatched]

InitPair ==
    /\ local_addr_ok = TRUE
    /\ pc = "start"
    /\ state = "Handshake"
    /\ buf = <<>>
    /\ rd = "none"
    /\ shut = FALSE
    /\ out = <<>>
    /\ rx = <<>>
    /\ peer = "open"
    /\ sentFrames = <<>>
    /\ recvd = 0
    /\ shortReads = 0
    /\ dispatched = <<>>
    /\ vi_in = [kind |-> "none"]
    /\ vi_calls = <<>>
    /\ others = NewConnection(2)

\* The scheduler goes over to the other thread (or the other peer acts).
Switch ==
    /\ others.id # 0
    /\ others' = Parked(3 - others.id)
    /\ local_addr_ok' = others.local_addr_ok
    /\ pc' = others.pc
    /\ state' = others.state
    /\ buf' = others.buf
    /\ rd' = others.rd
    /\ shut' = others.shut
    /\ out' = others.out
    /\ rx' = others.rx
    /\ peer' = others.peer
    /\ sentFrames' = others.sentFrames
    /\ recvd' = others.recvd
    /\ shortReads' = others.shortReads
    /\ dispatched' = others.dispatched
    /\ UNCHANGED codec

\* The frames the two peers send, MaxFrames of them between the two.
PairFrames ==
    { PeerFrame(HandshakeBody(1)), PeerFrame(HandshakeBody(2)),
      PeerFrame(HandshakeBody(9)), PeerFrame(StatusRequestBody),
      PeerFrame(UnknownBody), PeerFrame(LoginStartBody(NameSteve, Uuid1)),
      BadPacketIdFrame }

PairSend(f) ==
    /\ Len(sentFrames) + Len(others.sentFrames) < MaxFrames
    /\ PeerSend(f)

NextPair ==
    \/ Switch
    \/ \E f \in PairFrames : PairSend(f)
    \/ PeerClose
    \/ PeerReset
    \/ Start
    \/ \E n \in {Min(Len(rx), BUF_SIZE)} : ReadData(n)
    \/ ReadEof
    \/ ReadErr
    \/ LoopBreak
    \/ LoopPanic
    \/ DispatchHandshake
    \/ DispatchLogged
    \/ DispatchStatus
    \/ DispatchLogin
    \/ DispatchUnimplemented

SpecPair == InitPair /\ [][NextPair]_vars

\* ---------------------------------------------------- runs of the encoder
\* construct_registry_packet and RegistryEntry::as_bytes on their own.
\* "minecraft:worldgen/biome"
BiomeId == <<109, 105, 110, 101, 99, 114, 97, 102, 116, 58, 119, 111, 114, 108, 100, 103, 101, 110, 47, 98, 105, 111, 109, 101>>

\* "minecraft:plains"
PlainsId == <<109, 105, 110, 101, 99, 114, 97, 102, 116, 58, 112, 108, 97, 105, 110, 115>>

\* An id whose byte length needs a two-byte VarInt.
LongId == SubSeq([i \in 1..130 |-> 120], 1, 130)

\* "a", U+00E9, and the two above.
RegistryIds == { <<97>>, <<233>>, BiomeId, LongId }

EntryIds == { <<98>>, <<233>>, PlainsId }

\* A payload of 42 bytes, as the external serialiser returns one.
Payload42 == SubSeq([i \in 1..42 |-> i], 1, 42)

\* The fields are public and independent: every combination can be built.
Entries ==
    [ entry_id : EntryIds, has_data : BOOLEAN,
      data : {None, Some(<<>>), Some(<<9>>), Some(Payload42)} ]

RECURSIVE EntrySeqs(_)
EntrySeqs(n) ==
    IF n = 0 THEN {<<>>}
    ELSE LET shorter == EntrySeqs(n - 1)
         IN  shorter \cup { Append(es, e) : es \in { c \in shorter : Len(c) = n - 1 },
                                            e \in Entries }

InitRegistry ==
    /\ local_addr_ok = TRUE
    /\ pc = "start"
    /\ state = "Handshake"
    /\ buf = <<>>
    /\ rd = "none"
    /\ shut = FALSE
    /\ out = <<>>
    /\ rx = <<>>
    /\ peer = "open"
    /\ sentFrames = <<>>
    /\ recvd = 0
    /\ shortReads = 0
    /\ dispatched = <<>>
    /\ vi_in \in [kind : {"registry"}, registry_id : RegistryIds,
                  entries : EntrySeqs(MaxEntries)]
                 \cup [kind : {"entry"}, entry : Entries]
    /\ vi_calls = <<>>
    /\ others = NewConnection(0)

\* construct_registry_packet(registry_id, entries)
RegistryConstruct ==
    /\ vi_in.kind = "registry" /\ vi_calls = <<>>
    /\ vi_calls' = << [op |-> "construct_registry_packet",
                       registry_id |-> vi_in.registry_id,
                       entries |-> vi_in.entries,
                       bytes |-> construct_registry_packet(vi_in.registry_id,
                                                           vi_in.entries)] >>
    /\ UNCHANGED << conn, vi_in, others >>

\* entry.as_bytes()
RegistryEntryEncode ==
    /\ vi_in.kind = "entry" /\ vi_calls = <<>>
    /\ vi_calls' = << [op |-> "entry_as_bytes", entry |-> vi_in.entry,
                       bytes |-> RegistryEntry_as_bytes(vi_in.entry)] >>
    /\ UNCHANGED << conn, vi_in, others >>

NextRegistry ==
    \/ RegistryConstruct
    \/ RegistryEntryEncode

SpecRegistry == InitRegistry /\ [][NextRegistry]_vars

\* ------------------------------------------------ vocabulary of the claims
\* The protocol's VarInt as a reader of the wire sees it: the index of the
\* first byte without the continuation bit (0 if there is none among the
\* first five), and the value of the groups up to it.
WireLen(bytes) ==
    IF \E i \in 1..Min(MAX_SIZE, Len(bytes)) : bytes[i] < 128
        THEN CHOOSE i \in 1..Min(MAX_SIZE, Len(bytes)) :
                 /\ bytes[i] < 128
                 /\ \A j \in 1..(i - 1) : bytes[j] >= 128
        ELSE 0

RECURSIVE WireVal(_, _, _)
WireVal(bytes, i, n) ==
    IF i > n THEN 0 ELSE (bytes[i] % 128) + 128 * WireVal(bytes, i + 1, n)

\* w is exactly one frame: a length VarInt equal to the number of bytes that
\* follow it, then the one-byte packet id, then the payload.
IsFrame(w, packet_id, payload) ==
    LET n == WireLen(w)
    IN  /\ n \in 1..4
        /\ WireVal(w, 1, n) = Len(w) - n
        /\ Drop(w, n) = <<packet_id>> \o payload

\* p is exactly text prefixed by its byte length as a VarInt.
IsPrefixed(p, text) ==
    LET n == WireLen(p)
    IN  /\ n \in 1..4
        /\ WireVal(p, 1, n) = Len(text)
        /\ Drop(p, n) = text

Dispatches == { dispatched[i] : i \in DOMAIN dispatched }

LastDispatch == dispatched[Len(dispatched)]

\* The read that led to dispatch d had stored every byte the length prefix
\* declared.
Whole(d) == d.need <= d.avail

\* Total length of the first k frames the peer sent.
RECURSIVE FrameEnd(_)
FrameEnd(k) == IF k = 0 THEN 0 ELSE FrameEnd(k - 1) + Len(sentFrames[k])

\* The frames that lie wholly inside the bytes of the last read.
WholeInLastRead ==
    { k \in DOMAIN sentFrames :
        /\ FrameEnd(k - 1) >= recvd - Len(buf)
        /\ FrameEnd(k) <= recvd }

\* The frames the reads have returned in full so far.
Received == { k \in DOMAIN sentFrames : FrameEnd(k) <= recvd }

\* Packet id and payload of a dispatch, as bytes (ids below 128).
Body(d) == <<d.packet_id>> \o d.buf

\* A handshake packet (id 0x00 seen in state Handshake, payload not empty).
IsHandshake(d) == d.st = "Handshake" /\ d.packet_id = 0 /\ d.buf # <<>>

\* ------------------------------------------------------------------ claims
\* C1: when two or more complete frames arrive in one read, each of them is
\* dispatched exactly once and in arrival order.  Stated where no read was
\* ever short, so every read starts on a frame boundary: once the worker is
\* back at the read, the dispatches are exactly the frames received.
C1_EveryFrameOfAReadDispatched ==
    (pc = "read" /\ rd = "data" /\ ~shut /\ shortReads = 0
        /\ Cardinality(WholeInLastRead) >= 2)
    => /\ Len(dispatched) = Cardinality(Received)
       /\ \A k \in Received :
              k <= Len(dispatched) /\ Body(dispatched[k]) = Drop(sentFrames[k], 1)

\* C2: a frame is dispatched only after all the bytes its length prefix
\* declares have been received.
C2_DispatchOnlyWholeFrames == \A d \in Dispatches : Whole(d)

\* C3: in state Handshake a packet 0x00 whose next-state byte is 1, 2 or 3
\* sets the state to Status, Login or Transfer and does not shut down.
C3_HandshakeNextState ==
    (dispatched # <<>> /\ IsHandshake(LastDispatch)
        /\ Last(LastDispatch.buf) \in {1, 2, 3})
    => /\ state = CASE Last(LastDispatch.buf) = 1 -> "Status"
                    [] Last(LastDispatch.buf) = 2 -> "Login"
                    [] OTHER -> "Transfer"
       /\ LastDispatch.after = state
       /\ ~shut

\* C3 witness: a whole handshake frame with next-state byte 3 was processed
\* and the state is Transfer.
C3_Witness ==
    /\ dispatched # <<>> /\ IsHandshake(LastDispatch) /\ Whole(LastDispatch)
    /\ Last(LastDispatch.buf) = 3
    /\ state = "Transfer"
    /\ pc = "read"

\* C4: for every next-state byte other than 1, 2 and 3 (0 and 9 included) the
\* handshake packet shuts the connection down, and the state never becomes
\* Status, Login or Transfer afterwards.
C4_InvalidNextStateShutsDown ==
    \A d \in Dispatches :
        (IsHandshake(d) /\ Whole(d) /\ Last(d.buf) \notin {1, 2, 3})
        => (shut /\ state \notin {"Status", "Login", "Transfer"})

C6_StateTransitions ==
    /\ state = "Handshake"
    /\ [][ state' # state =>
             /\ state = "Handshake"
             /\ state' \in {"Status", "Login", "Transfer", "Unknown"}
             /\ pc = "decode"
             /\ Decode(buf).kind = "dispatch"
             /\ Decode(buf).packet_id = 0 ]_vars

\* C6 witness: after the handshake moved the state to Status, a packet 0x00
\* was processed there and the state is still Status.
C6_Witness ==
    /\ Len(dispatched) >= 2
    /\ dispatched[1].st = "Handshake" /\ dispatched[1].after = "Status"
    /\ LastDispatch.st = "Status" /\ LastDispatch.packet_id = 0
    /\ state = "Status"

\* C7: in state Status a packet 0x00 makes the worker write exactly one
\* frame (while the stream takes writes): a length VarInt equal to the
\* number of bytes after it, packet id 0x00, and the status text prefixed by
\* its byte length as a VarInt; the state stays Status.
C7_StatusResponse ==
    \A d \in Dispatches :
        (d.st = "Status" /\ d.packet_id = 0 /\ d.writable)
        => /\ \E p \in {Drop(d.written, WireLen(d.written) + 1)} :
                  /\ IsFrame(d.written, 0, p)
                  /\ IsPrefixed(p, response_string)
           /\ d.after = "Status"

\* C7 witness: a whole status request was processed in Status and answered.
C7_Witness ==
    /\ dispatched # <<>>
    /\ LastDispatch.st = "Status" /\ LastDispatch.packet_id = 0
    /\ LastDispatch.buf = <<>> /\ Whole(LastDispatch)
    /\ LastDispatch.writable /\ LastDispatch.written # <<>>
    /\ out # <<>>

\* C8: in state Status a ping (packet 0x01) is answered by one frame whose
\* payload is the payload received, and by nothing else.
C8_PingEcho ==
    \A d \in Dispatches :
        (d.st = "Status" /\ d.packet_id = 1 /\ Whole(d) /\ d.writable)
        => IsFrame(d.written, 1, d.buf)

\* C9: in state Login a Login Start (packet 0x00) whose payload is a
\* length-prefixed name followed by a 16-byte UUID is answered by one Login
\* Success frame: length, packet id 0x02, the same UUID bytes, the name
\* prefixed by its length with the bytes received, a property count of 0 and
\* the flag byte 0x01.
C9_LoginSuccess ==
    \A d \in Dispatches :
        (d.st = "Login" /\ d.packet_id = 0 /\ Whole(d) /\ d.writable
            /\ Len(d.buf) >= 17 /\ Len(d.buf) = 1 + d.buf[1] + 16)
        => LET name == SubSeq(d.buf, 2, 1 + d.buf[1])
               uuid == SubSeq(d.buf, Len(d.buf) - 15, Len(d.buf))
           IN  IsFrame(d.written, 2, uuid \o <<Len(name)>> \o name \o <<0, 1>>)

\* C10: once Login Success has been sent, a Registry Data frame (packet
\* 0x07) is sent before the worker idles.
C10_RegistryBeforeIdle ==
    (pc = "idle" /\ LastDispatch.written # <<>>)
    => LET rest == Drop(out, LastDispatch.out_to - Len(LastDispatch.written))
           after == Drop(rest, Len(LastDispatch.written))
       IN  \E n \in 1..Len(after) : \E p \in {SubSeq(after, WireLen(after) + 2, n)} :
               IsFrame(Take(after, n), 7, p)

\* A packet id no arm of the match names in state st, and the protocol has
\* no packet for (0x00 and 0x01 are the Status packets, 0x00 that of Login).
NoHandler(st, packet_id) ==
    \/ st = "Handshake" /\ packet_id \notin {0, 254}
    \/ st = "Status" /\ packet_id \notin {0, 1}
    \/ st = "Login" /\ packet_id # 0
    \/ st = "Transfer"

\* C11: in every state (Handshake, Status, Login, Transfer) a whole frame
\* whose packet id has no handler there is logged and skipped: the step that
\* processes it leaves the state unchanged, writes nothing, and takes the
\* worker back to the read.
C11_UnrecognisedPacketSkipped ==
    [][ ( /\ pc = "decode"
          /\ Decode(buf).kind = "dispatch"
          /\ Decode(buf).len + Decode(buf).value <= Len(buf)
          /\ NoHandler(state, Decode(buf).packet_id)
          /\ pc' # pc )
        => (pc' = "read" /\ state' = state /\ out' = out) ]_vars

\* C12: when a read yields a zero-length frame (the first byte stored is 0),
\* the worker's next step leaves the read loop: the function returns, no
\* packet is dispatched, nothing is written, the state is as it was;
\* whatever the connection's state.
C12_ZeroLengthFrameEndsLoop ==
    [][ (pc = "decode" /\ rd = "data" /\ BufAt(buf, 0) = 0 /\ pc' # pc)
        => (pc' = "done" /\ UNCHANGED << dispatched, state, out, shut >>) ]_vars

\* C12 witness: in state Status a read returned the zero-length frame and
\* the worker has left the loop, the status request before it being the last
\* packet dispatched.
C12_Witness ==
    /\ pc = "done" /\ rd = "data" /\ buf = <<0>>
    /\ state = "Status"
    /\ dispatched # <<>> /\ LastDispatch.st = "Status"

\* C13: when a read fails with an I/O error, the worker's next step leaves
\* the read loop (the function returns and the stream, dropped, is closed):
\* nothing is decoded or dispatched from the buffer of that read.
C13_ReadErrorEndsLoop ==
    [][ /\ (pc = "read" /\ rd' = "err") => (pc' = "decode" /\ buf' = <<>>)
        /\ (pc = "decode" /\ rd = "err" /\ pc' # pc)
           => (pc' = "done" /\ UNCHANGED << dispatched, state, out >>) ]_vars

\* C13 witness: packets had been dispatched, then a read failed, and the
\* worker has left the loop.
C13_Witness ==
    /\ pc = "done" /\ rd = "err" /\ peer = "reset"
    /\ dispatched # <<>>

\* The arm of a dispatch writes a response frame.
Responds(d) ==
    \/ match_arm(d.st, d.packet_id) = "status"
    \/ match_arm(d.st, d.packet_id) = "login" /\ ~login(d.buf).panic

\* C14: when the write of a response frame (status response or Login
\* Success) fails, the worker stops processing the connection: it neither
\* goes back to the read nor enters the phase after login.
C14_WriteFailureIsFatal ==
    (dispatched # <<>> /\ Responds(LastDispatch) /\ ~LastDispatch.writable)
    => pc \in {"done", "panicked"}

\* C15: in every state of a connection, after Login Success too, once the
\* peer has closed the stream the worker eventually leaves its loop (the
\* function returns or the thread unwinds, and the stream is dropped).
C15_PeerCloseEndsWorker ==
    (peer = "closed") ~> (pc \in {"done", "panicked"})

\* The calls of a run of the codec, by function.
EncodeCalls == { c \in { vi_calls[i] : i \in DOMAIN vi_calls } : c.op = "as_bytes" }

ReadCalls == { c \in { vi_calls[i] : i \in DOMAIN vi_calls } : c.op = "read" }

\* The 7-bit groups of a natural number, low group first, the continuation
\* bit on every byte but the last.
RECURSIVE Groups7(_)
Groups7(n) ==
    IF n < 128 THEN <<n>> ELSE <<(n % 128) + 128>> \o Groups7(n \div 128)

\* The groups of the unsigned 32-bit pattern of an i32.  A negative v has
\* bit 31 set: five groups, the last one bits 28..31.
U32Groups(v) ==
    IF v >= 0 THEN Groups7(v)
    ELSE LET low == (v + 1073741824) + 1073741824     \* bits 0..30
         IN  << (low % 128) + 128,
                ((low \div 128) % 128) + 128,
                ((low \div 16384) % 128) + 128,
                ((low \div 2097152) % 128) + 128,
                (low \div 268435456) + 8 >>

\* b is a minimal VarInt encoding: 1 to 5 bytes, the continuation bit on all
\* but the last, no redundant zero group at the end, at most 32 bits.
Minimal(b) ==
    /\ Len(b) \in 1..MAX_SIZE
    /\ \A i \in 1..(Len(b) - 1) : b[i] >= 128
    /\ Last(b) < 128
    /\ Len(b) > 1 => Last(b) # 0
    /\ Len(b) = MAX_SIZE => Last(b) < 16

\* C16: for every v in {0, 1, 127, 128, 255, 2097151, 2147483647, -1},
\* reading the bytes as_bytes gave for v succeeds with value v, and the
\* VarInt read has as many bytes as as_bytes gave.
C16_RoundTrip ==
    (Len(vi_calls) = 2 /\ vi_calls[1].op = "as_bytes"
        /\ vi_calls[1].value \in {0, 1, 127, 128, 255, 2097151, 2147483647, -1})
    => /\ vi_calls[2].res.ok
       /\ vi_calls[2].res.v.value = vi_calls[1].value
       /\ length(vi_calls[2].res.v) = Len(vi_calls[1].bytes)

\* C17: for every i32 v, negative ones included, as_bytes gives the 7-bit
\* groups of v's unsigned 32-bit pattern, 1 to 5 bytes (for -1: FF FF FF FF
\* 0F).
C17_EncodeIsU32Groups ==
    \A c \in EncodeCalls :
        /\ c.bytes = U32Groups(c.value)
        /\ Len(c.bytes) \in 1..5
        /\ c.value = -1 => c.bytes = <<255, 255, 255, 255, 15>>

\* C18: reading a slice whose first 5 bytes all have the continuation bit
\* fails with TooLarge whatever follows, and no byte past index 4 is looked
\* at: a slice longer than 5 bytes reads as its first 5 bytes do, and a
\* successful read ended on one of the first 5.
C18_FiveContinuationsTooLarge ==
    \A c \in ReadCalls :
        /\ (Len(c.bytes) >= 5 /\ \A i \in 1..5 : c.bytes[i] >= 128)
           => c.res = Err("TooLarge")
        /\ Len(c.bytes) > 5 => c.res = ivar_read(Take(c.bytes, 5))
        /\ c.res.ok => \E i \in 1..Min(5, Len(c.bytes)) : c.bytes[i] < 128

\* C18 witness: a read of six bytes, five with the continuation bit and then
\* one without, has failed with TooLarge.
C18_Witness ==
    /\ vi_calls # <<>> /\ vi_calls[1].op = "read"
    /\ vi_calls[1].bytes = <<255, 128, 255, 128, 255, 1>>
    /\ vi_calls[1].res = Err("TooLarge")

\* C19: reading an empty slice, or one of fewer than 5 bytes that all have
\* the continuation bit, fails with OutOfRange and returns no value.
C19_ShortInputOutOfRange ==
    \A c \in ReadCalls :
        (Len(c.bytes) < 5 /\ \A i \in 1..Len(c.bytes) : c.bytes[i] >= 128)
        => c.res = Err("OutOfRange")

\* C19 witness: a read of four bytes, all with the continuation bit, has
\* failed with OutOfRange.
C19_Witness ==
    /\ vi_calls # <<>> /\ vi_calls[1].op = "read"
    /\ vi_calls[1].bytes = <<128, 255, 255, 128>>
    /\ vi_calls[1].res = Err("OutOfRange")

\* C20: for every minimal VarInt encoding b of 1 to 5 bytes, those of
\* negative values included, as_bytes of the value read from b is b.
C20_Idempotent ==
    (Len(vi_calls) = 2 /\ vi_calls[1].op = "read" /\ Minimal(vi_calls[1].bytes))
    => vi_calls[2].bytes = vi_calls[1].bytes

\* The calls of a run of the registry encoder, by function.
ConstructCalls ==
    { c \in { vi_calls[i] : i \in DOMAIN vi_calls } : c.op = "construct_registry_packet" }

EntryCalls ==
    { c \in { vi_calls[i] : i \in DOMAIN vi_calls } : c.op = "entry_as_bytes" }

\* The UTF-8 bytes of a text of chars below U+0100.
RECURSIVE Utf8Of(_)
Utf8Of(text) ==
    IF \A i \in DOMAIN text : text[i] < 128 THEN text
    ELSE (IF Head(text) < 128
              THEN <<Head(text)>>
              ELSE <<192 + (Head(text) \div 64), 128 + (Head(text) % 64)>>)
         \o Utf8Of(Tail(text))

\* A text on the wire: its byte length as a VarInt, then its bytes.
Prefixed(text) == Groups7(Len(Utf8Of(text))) \o Utf8Of(text)

\* The entries on the wire, in the order given.
RECURSIVE EntriesWire(_)
EntriesWire(entries) ==
    IF entries = <<>> THEN <<>>
    ELSE Prefixed(Head(entries).entry_id)
         \o << IF Head(entries).has_data THEN 1 ELSE 0 >>
         \o (IF Head(entries).data.some THEN Head(entries).data.v ELSE <<>>)
         \o EntriesWire(Tail(entries))

\* C21: for every registry id and every sequence of entries,
\* construct_registry_packet returns VarInt(n) followed by exactly n bytes:
\* VarInt(0x07), the registry id as a length-prefixed string, the number of
\* entries as a VarInt, then each entry in the order given (none moved, none
\* dropped) as its length-prefixed id, a flag byte (0x01 if has_data, else
\* 0x00) and its payload bytes if present.
C21_RegistryPacketLayout ==
    \A c \in ConstructCalls :
        LET n == WireLen(c.bytes)
            body == Drop(c.bytes, n)
        IN  /\ n >= 1
            /\ WireVal(c.bytes, 1, n) = Len(body)
            /\ body = <<7>> \o Prefixed(c.registry_id)
                      \o Groups7(Len(c.entries)) \o EntriesWire(c.entries)

\* C21 witness: a packet was built from two entries that are not in id order
\* (the same id twice would do too) and carry payloads.
C21_Witness ==
    \E c \in ConstructCalls :
        /\ Len(c.entries) = 2
        /\ c.entries[1].entry_id = PlainsId /\ c.entries[2].entry_id = <<98>>
        /\ c.entries[1].data = Some(Payload42) /\ c.entries[2].data = Some(<<9>>)
        /\ c.registry_id = LongId

\* The scenario of C22: registry "minecraft:worldgen/biome", one entry
\* "minecraft:plains" with a payload of 42 bytes.
IsBiomeScenario(c) ==
    /\ c.registry_id = BiomeId
    /\ c.entries = << [entry_id |-> PlainsId, has_data |-> TRUE,
                       data |-> Some(Payload42)] >>

\* C22 as stated: the frame after its length prefix is
\* 1 + (2+24) + 1 + (2+17) + 1 + 42 bytes long and the prefix says so.
C22_ScenarioLengthAsStated ==
    \A c \in ConstructCalls :
        IsBiomeScenario(c)
        => LET n == WireLen(c.bytes)
           IN  /\ Len(c.bytes) - n = 1 + (2 + 24) + 1 + (2 + 17) + 1 + 42
               /\ WireVal(c.bytes, 1, n) = 1 + (2 + 24) + 1 + (2 + 17) + 1 + 42

\* C22, as the code has it: a string is its length as a VarInt (one byte
\* here) and its bytes, and "minecraft:plains" has 16 bytes, so the frame
\* after its length prefix is 1 + (1+24) + 1 + (1+16) + 1 + 42 bytes long,
\* and the length VarInt is that sum exactly.
C22_ScenarioLength ==
    \A c \in ConstructCalls :
        IsBiomeScenario(c)
        => LET n == WireLen(c.bytes)
           IN  /\ n = 1
               /\ Len(c.bytes) - n = 1 + (1 + 24) + 1 + (1 + 16) + 1 + 42
               /\ WireVal(c.bytes, 1, n) = 1 + (1 + 24) + 1 + (1 + 16) + 1 + 42

\* C22 witness: the packet of the scenario was built.
C22_Witness ==
    \E c \in ConstructCalls : IsBiomeScenario(c) /\ Len(c.bytes) > 42

\* C23: for every RegistryEntry that can be built and encoded, the payload
\* is present iff has_data is true: the encoded entry has its payload after
\* the flag byte exactly when the flag byte is 0x01, nothing after a 0x00
\* flag, and never a 0x01 flag without its payload.
C23_PayloadIffFlag ==
    \A c \in EntryCalls :
        LET n == WireLen(c.bytes)
            flag_at == n + WireVal(c.bytes, 1, n) + 1
            flag == c.bytes[flag_at]
            rest == Drop(c.bytes, flag_at)
        IN  /\ (flag = 1) <=> c.entry.data.some
            /\ flag = 0 => rest = <<>>
            /\ flag = 1 => (c.entry.data.some /\ rest = c.entry.data.v)

\* A payload whose leading VarInt cannot be decoded: none of its first five
\* bytes ends it (an empty payload included).
NoLeadingVarInt(payload) == WireLen(payload) = 0

\* A Login Start payload shorter than the declared name plus the 16 bytes of
\* the UUID.
ShortLoginStart(payload) ==
    \/ NoLeadingVarInt(payload)
    \/ /\ WireLen(payload) <= 4
       /\ Len(payload) < WireLen(payload)
                         + WireVal(payload, 1, WireLen(payload)) + 16

\* The handler the buffer is dispatched to cannot parse the payload.
ParseFails ==
    \/ Arm = "handshake" /\ NoLeadingVarInt(Decode(buf).buf)
    \/ Arm = "login" /\ ShortLoginStart(Decode(buf).buf)

\* C26: when the payload of a packet fails to parse in its handler (a
\* Handshake whose protocol VarInt cannot be decoded or whose payload is
\* empty, a Login Start shorter than the declared name plus 16 bytes), the
\* packet is dropped: the state is unchanged, nothing is written, the stream
\* is not shut down, the worker does not abort and goes on to the next read.
C26_ParseFailureDropsPacket ==
    [][ (pc = "decode" /\ pc' # pc /\ ParseFails)
        => (pc' = "read" /\ state' = state /\ out' = out /\ shut' = shut) ]_vars

\* A Login Start payload as the protocol has it: the name's length as a
\* VarInt, that many bytes of name, 16 bytes of UUID.
WellFormedLoginStart(payload) ==
    /\ WireLen(payload) \in 1..4
    /\ Len(payload) = WireLen(payload)
                      + WireVal(payload, 1, WireLen(payload)) + 16

\* The bytes of the name in a well-formed Login Start payload.
NameBytes(payload) ==
    SubSeq(payload, WireLen(payload) + 1,
           WireLen(payload) + WireVal(payload, 1, WireLen(payload)))

\* C28: the player name parsed from a Login Start payload is exactly the
\* declared-length bytes after the name's VarInt length prefix: neither the
\* prefix byte nor a byte of the UUID is part of it.
C28_NameIsDeclaredBytes ==
    \A d \in Dispatches :
        (d.st = "Login" /\ d.packet_id = 0 /\ WellFormedLoginStart(d.buf))
        => /\ ~login(d.buf).panic
           /\ login(d.buf).name = convert_buf_to_string(NameBytes(d.buf))

\* C29: for every byte sequence VarInt::read decodes, length() of the value
\* returned is the number of bytes the decode consumed (the index of the
\* first byte without the continuation bit, plus one), non-minimal
\* encodings such as [0x80, 0x00] and five-byte encodings of negative values
\* included.
C29_LengthIsBytesConsumed ==
    \A c \in ReadCalls :
        c.res.ok => length(c.res.v) = WireLen(c.bytes)

\* The buffer of the last read starts with a whole frame whose length prefix
\* has 1 to 4 bytes.
StartsWithWholeFrame ==
    /\ WireLen(buf) \in 1..4
    /\ WireLen(buf) + WireVal(buf, 1, WireLen(buf)) <= Len(buf)

\* The bytes of that frame after its prefix: as many as the prefix declares.
DeclaredBytes ==
    SubSeq(buf, WireLen(buf) + 1, WireLen(buf) + WireVal(buf, 1, WireLen(buf)))

\* C25: for every received frame, whatever the byte length of its length
\* prefix (so also for declared lengths of 128 or more), the bytes handed on
\* as packet id and payload are exactly the declared number of bytes after
\* the prefix: none missing at the end, none of the prefix included.
C25_DispatchedBytesAreDeclaredBytes ==
    [][ (pc = "decode" /\ StartsWithWholeFrame
         /\ Len(dispatched') = Len(dispatched) + 1)
        => Body(dispatched'[Len(dispatched')]) = DeclaredBytes ]_vars

\* The receive buffer (zero-filled after the bytes read) has no decodable
\* length prefix, or the frame it declares has no decodable packet id.
PrefixUndecodable ==
    BufAt(buf, 0) # 0 /\ \A i \in 0..(MAX_SIZE - 1) : BufAt(buf, i) >= 128

PacketIdUndecodable ==
    /\ BufAt(buf, 0) # 0
    /\ StartsWithWholeFrame
    /\ WireLen(DeclaredBytes) = 0

\* C27: when the length prefix or the packet id of a received frame cannot
\* be decoded as a VarInt (five continuation bytes, or too few bytes), the
\* connection's loop ends (the worker returns, it does not abort) and no
\* packet is dispatched.
C27_UndecodableVarIntEndsLoop ==
    [][ (pc = "decode" /\ pc' # pc /\ (PrefixUndecodable \/ PacketIdUndecodable))
        => (pc' = "done" /\ dispatched' = dispatched) ]_vars

\* The length prefix at the head of the receive buffer decodes to a value
\* that is negative or larger than the number of bytes read after it.
DeclaredOutOfRange ==
    /\ BufAt(buf, 0) # 0
    /\ ~PrefixUndecodable
    /\ LET declared == ivar_read(Slice(buf, 0, MAX_SIZE)).v.value
       IN  declared < 0 \/ declared > Len(buf) - WireLen(Slice(buf, 0, MAX_SIZE))

\* C30: for every value of a frame's length prefix, those larger than the
\* bytes available in the receive buffer and negative ones included, the
\* extraction of the frame does not abort the worker: no abort before a
\* packet is dispatched.
C30_ExtractionNeverAborts ==
    [][ (pc = "decode" /\ pc' # pc /\ DeclaredOutOfRange)
        => ~(pc' = "panicked" /\ dispatched' = dispatched) ]_vars

\* C24: with two connections served concurrently by their own workers, any
\* step of one worker or of its peer (read, dispatch, state change, write,
\* shutdown) leaves the other connection as it was: its protocol state, its
\* stream (bytes queued, bytes written, shut down or not) and its worker's
\* position; and a change-over of the scheduler hands each connection on as
\* it was.  This holds under every interleaving of the two workers.
C24_WorkersAreIsolated ==
    [][ /\ others'.id = others.id => others' = others
        /\ others'.id # others.id
           => /\ others' = Parked(others'.id)
              /\ state' = others.state /\ pc' = others.pc
              /\ out' = others.out /\ rx' = others.rx
              /\ shut' = others.shut /\ peer' = others.peer ]_vars

\* C24 witness: the first connection has got to Status and waits, while the
\* worker of the second has taken its handshake to Login.
C24_Witness ==
    /\ others.id = 1 /\ others.state = "Status" /\ others.pc = "read"
    /\ state = "Login" /\ pc = "read"
    /\ Len(dispatched) = 1 /\ Len(others.dispatched) = 1

\* C31: after the handshake handler has shut the connection down for an
\* invalid next-state byte (the only place the worker shuts it down), the
\* worker dispatches no further packet for that connection and writes no
\* bytes to it.
C31_NothingAfterShutdown ==
    [][ shut => (dispatched' = dispatched /\ out' = out) ]_vars

====
